---- MODULE Spec2Model ----
(***************************************************************************)
(* Student analytics of the cline fork: the adoption tracker               *)
(* (AdoptionTracker.ts) and the student profiler (StudentLogPersister.ts). *)
(*                                                                         *)
(* Specification Spec drives one AdoptionTracker instance through its      *)
(* public methods; specification SpecProfiler grows a log of interaction   *)
(* events and evaluates StudentProfiler.generate() on it;                  *)
(* SpecCategories evaluates generate() on logs that span the categories;   *)
(* SpecShuffled evaluates it on every order of the records of one log;     *)
(* SpecHelpers applies the pure helpers isSameTopicHeuristic and           *)
(* inferLearningStyle to arguments drawn from bounded sets; SpecPersister  *)
(* drives the turn counter of StudentLogPersister; SpecEditor drives one   *)
(* CodeEditTracker through its listeners, its timers and its suspended     *)
(* asynchronous calls.                                                     *)
(***************************************************************************)
EXTENDS Integers, Sequences, FiniteSets, TLC

VARIABLES
    pendingTurns,   \* AdoptionTracker.pendingTurns: the entries of the Map
    now,            \* Date.now(), in milliseconds
    call,           \* the last method call on the tracker and what it returned
    sinceReg,       \* history: per task, was onCodeEdit / onFileSave called
                    \* since the task's last registerAssistantTurn
    life,           \* history: per task, "never" registered, "pending",
                    \* "resolved" by a verdict, or "cleared"
    logs,           \* StudentProfiler.logs: the sequence of log events
    profile,        \* what generate() returned for logs: <<>> before the
                    \* call, <<the StudentProfile>> after it
    helper,         \* the last call of a pure helper function, with its
                    \* arguments and its result: <<>> before any call
    turnIndexMap,   \* StudentLogPersister.turnIndexMap: the entries of the Map
    handedOut,      \* history: per task, the calls of getNextTurnIndex (with
                    \* the index returned) and of resetTurnIndex, in order
    activeTaskId,   \* CodeEditTracker.activeTaskId, Absent when undefined; the
                    \* persister and the adoption tracker are set and
                    \* cleared with it
    listening,      \* CodeEditTracker.disposables is not empty
    pendingEdits,   \* CodeEditTracker.pendingEdits: the entries of the Map
    timers,         \* the debounce timers that are set and have not fired
    flights,        \* the calls of flushEdit and onDocumentSave that are
                    \* suspended at their await
    events          \* history: the change and save events the tracker has
                    \* accepted, in order

trackerVars == <<pendingTurns, call, sinceReg, life>>

profilerVars == <<logs, profile>>

persisterVars == <<turnIndexMap, handedOut>>

trackingVars == <<activeTaskId, listening, pendingEdits, timers, flights, events>>

vars == <<pendingTurns, now, call, sinceReg, life, logs, profile, helper,
          turnIndexMap, handedOut, activeTaskId, listening, pendingEdits,
          timers, flights, events>>

(***************************************************************************)
(* Bounds of the model.                                                    *)
(***************************************************************************)
\* The clock advances at most MaxTick times.
MaxTick == 1
\* Turn indexes passed to registerAssistantTurn are 0..MaxTurnIndex.
MaxTurnIndex == 0
\* The log given to the profiler holds at most MaxLog events.
MaxLog == 3
\* The persister is called at most MaxHandOut times for a task.
MaxHandOut == 4
\* The editor delivers at most MaxEvents change and save events.
MaxEvents == 2
\* The editor's clock advances at most MaxEditorTicks times.
MaxEditorTicks == 2

(***************************************************************************)
(* types.ts                                                                *)
(***************************************************************************)
SuggestionType ==
    {"code_generation", "code_edit", "explanation", "question",
     "completion", "command", "mixed", "other"}

AdoptionStatus == {"adopted", "rejected", "continued", "unknown"}

\* A string that is absent (undefined) or empty: both are falsy, and the
\* code only tests such strings for truth or for equality.
Absent == ""

(***************************************************************************)
(* AdoptionTracker.ts                                                      *)
(***************************************************************************)
ADOPTION_TIMEOUT_MS == 60000

\* One clock step: just over the timeout, so that a pending turn is seen
\* both before the timeout (elapsed = 0) and after it.
TickMs == ADOPTION_TIMEOUT_MS + 1

\* The task ids the callers use.
TaskIds == {"taskA", "taskB"}

\* The suggestion types the callers register turns with.
SuggestionInputs == {"completion", "explanation", "code_generation"}

\* ---- the JavaScript Map, as its set of entries [key, value] ----
MapHas(m, k) == \E e \in m : e.key = k

MapGet(m, k) == (CHOOSE e \in m : e.key = k).value

\* Mutant of MapSet: the entry is added beside the one the key already has.
MapSetKeepingOld(m, k, v) == m \cup {[key |-> k, value |-> v]}

MapSet(m, k, v) == {e \in m : e.key # k} \cup {[key |-> k, value |-> v]}

\* Mutant of MapDelete: the whole Map is emptied.
MapDeleteAll(m, k) == {}

MapDelete(m, k) == {e \in m : e.key # k}

\* ---- PendingAssistantTurn, as registerAssistantTurn builds it ----
NewPendingTurn(taskId, turnIndex, suggestionType, hasCode, ts, createdAt) ==
    [ts |-> ts, taskId |-> taskId, turnIndex |-> turnIndex,
     suggestionType |-> suggestionType, hasCode |-> hasCode,
     hasCodeEdit |-> FALSE, hasFileSave |-> FALSE, createdAt |-> createdAt]

\* Mutant of inferAdoption: the topic check comes before rule 1.
inferAdoptionTopicFirst(pending, isSameTopic) ==
    IF isSameTopic /\ pending.suggestionType # "completion"
    THEN "continued"
    ELSE IF pending.hasCode /\ (pending.hasCodeEdit \/ pending.hasFileSave)
    THEN "adopted"
    ELSE IF pending.suggestionType = "completion"
    THEN "adopted"
    ELSE IF ~pending.hasCodeEdit /\ ~pending.hasFileSave
    THEN "rejected"
    ELSE "adopted"

\* Mutant of inferAdoption: the test of rule 4 has lost its negations.
inferAdoptionRule4Inverted(pending, isSameTopic) ==
    IF pending.hasCode /\ (pending.hasCodeEdit \/ pending.hasFileSave)
    THEN "adopted"
    ELSE IF pending.suggestionType = "completion"
    THEN "adopted"
    ELSE IF isSameTopic
    THEN "continued"
    ELSE IF pending.hasCodeEdit \/ pending.hasFileSave
    THEN "rejected"
    ELSE "adopted"

\* ---- inferAdoption: the message-arrival rule ----
inferAdoption(pending, isSameTopic) ==
    IF pending.hasCode /\ (pending.hasCodeEdit \/ pending.hasFileSave)
    THEN "adopted"
    ELSE IF pending.suggestionType = "completion"
    THEN "adopted"
    ELSE IF isSameTopic
    THEN "continued"
    ELSE IF ~pending.hasCodeEdit /\ ~pending.hasFileSave
    THEN "rejected"
    ELSE "adopted"

\* Mutant of inferAdoptionByBehavior: a timeout without behaviour is a
\* rejection.
inferAdoptionByBehaviorRejecting(pending, dateNow) ==
    LET elapsed == dateNow - pending.createdAt IN
    IF pending.hasCodeEdit \/ pending.hasFileSave
    THEN "adopted"
    ELSE IF elapsed > ADOPTION_TIMEOUT_MS
    THEN "rejected"
    ELSE "unknown"

\* ---- inferAdoptionByBehavior: the behaviour-only rule ----
inferAdoptionByBehavior(pending, dateNow) ==
    LET elapsed == dateNow - pending.createdAt IN
    IF pending.hasCodeEdit \/ pending.hasFileSave
    THEN "adopted"
    ELSE IF elapsed > ADOPTION_TIMEOUT_MS
    THEN "unknown"
    ELSE "unknown"

\* Mutant of finalizeIfPending: the pending turn is judged and not deleted.
finalizeIfPendingKeeping(m, taskId, dateNow) ==
    IF ~MapHas(m, taskId)
    THEN [status |-> "unknown", map |-> m]
    ELSE [status |-> inferAdoptionByBehavior(MapGet(m, taskId), dateNow),
          map |-> m]

\* ---- finalizeIfPending: the returned status and the Map it leaves ----
finalizeIfPending(m, taskId, dateNow) ==
    IF ~MapHas(m, taskId)
    THEN [status |-> "unknown", map |-> m]
    ELSE [status |-> inferAdoptionByBehavior(MapGet(m, taskId), dateNow),
          map |-> MapDelete(m, taskId)]

\* ---- onUserMessage: the returned status and the Map it leaves ----
onUserMessage(m, taskId, isSameTopic) ==
    IF ~MapHas(m, taskId)
    THEN [status |-> "unknown", map |-> m]
    ELSE [status |-> inferAdoption(MapGet(m, taskId), isSameTopic),
          map |-> MapDelete(m, taskId)]

\* Mutants of onCodeEdit / onFileSave: with no pending turn, one is created
\* to hold the flag.
onCodeEditCreating(m, taskId) ==
    IF MapHas(m, taskId)
    THEN MapSet(m, taskId, [MapGet(m, taskId) EXCEPT !.hasCodeEdit = TRUE])
    ELSE MapSet(m, taskId,
                [NewPendingTurn(taskId, 0, "other", FALSE, 0, 0)
                    EXCEPT !.hasCodeEdit = TRUE])

onFileSaveCreating(m, taskId) ==
    IF MapHas(m, taskId)
    THEN MapSet(m, taskId, [MapGet(m, taskId) EXCEPT !.hasFileSave = TRUE])
    ELSE MapSet(m, taskId,
                [NewPendingTurn(taskId, 0, "other", FALSE, 0, 0)
                    EXCEPT !.hasFileSave = TRUE])

\* Mutant of onFileSave: the turn is written back with its edit flag reset.
onFileSaveResettingEdit(m, taskId) ==
    IF MapHas(m, taskId)
    THEN MapSet(m, taskId, [MapGet(m, taskId) EXCEPT !.hasFileSave = TRUE,
                                                     !.hasCodeEdit = FALSE])
    ELSE m

\* ---- onCodeEdit / onFileSave: the Map they leave ----
onCodeEdit(m, taskId) ==
    IF MapHas(m, taskId)
    THEN MapSet(m, taskId, [MapGet(m, taskId) EXCEPT !.hasCodeEdit = TRUE])
    ELSE m

onFileSave(m, taskId) ==
    IF MapHas(m, taskId)
    THEN MapSet(m, taskId, [MapGet(m, taskId) EXCEPT !.hasFileSave = TRUE])
    ELSE m

\* Mutant of registerAssistantTurn: the flags of the displaced turn are
\* carried over to the new one.
registerAssistantTurnKeepingFlags(m, taskId, turnIndex, suggestionType, hasCode, ts, dateNow) ==
    LET settled == finalizeIfPending(m, taskId, dateNow)
        fresh == NewPendingTurn(taskId, turnIndex, suggestionType, hasCode, ts, dateNow)
    IN  MapSet(settled.map, taskId,
               IF MapHas(m, taskId)
               THEN [fresh EXCEPT !.hasCodeEdit = MapGet(m, taskId).hasCodeEdit,
                                  !.hasFileSave = MapGet(m, taskId).hasFileSave]
               ELSE fresh)

\* ---- registerAssistantTurn: the Map it leaves (it returns nothing) ----
registerAssistantTurn(m, taskId, turnIndex, suggestionType, hasCode, ts, dateNow) ==
    LET settled == finalizeIfPending(m, taskId, dateNow) IN
    MapSet(settled.map, taskId,
           NewPendingTurn(taskId, turnIndex, suggestionType, hasCode, ts, dateNow))

\* Mutant of isSameTopicHeuristic: the test for an absent category is lost.
isSameTopicHeuristicLoose(prevCategory, currentCategory) ==
    prevCategory = currentCategory

\* ---- isSameTopicHeuristic ----
isSameTopicHeuristic(prevCategory, currentCategory) ==
    IF prevCategory = Absent \/ currentCategory = Absent
    THEN FALSE
    ELSE prevCategory = currentCategory

\* ---- getPendingTurn(taskId) !== undefined ----
hasPendingTurn(m, taskId) == MapHas(m, taskId)

\* What the external poller evaluates before it calls finalizeIfPending: is
\* the pending turn of the task older than the timeout.
isTimedOut(m, taskId, dateNow) ==
    /\ MapHas(m, taskId)
    /\ dateNow - MapGet(m, taskId).createdAt > ADOPTION_TIMEOUT_MS

\* A method call as its caller sees it: the method, its arguments, what the
\* caller saw of the task's pending turn just before it (was there one, was
\* it older than the timeout), and what the method returned.
Called(op, taskId, isSameTopic, hadPending, timedOut, ret) ==
    [op |-> op, taskId |-> taskId, isSameTopic |-> isSameTopic,
     hadPending |-> hadPending, timedOut |-> timedOut, ret |-> ret]

(***************************************************************************)
(* Numbers.  A JavaScript number in [0, 2000] is modelled in fixed point,  *)
(* as the integer nearest below Scale times its value; products and        *)
(* quotients are split so that no intermediate result leaves 32 bits.      *)
(***************************************************************************)
SqrtScale == 10 ^ 3

Scale == SqrtScale * SqrtScale

\* a * b for fixed-point a, b >= 0 with a <= 2 * Scale and b <= Scale.
MulFix(a, b) ==
    LET x == a
        y == b
    IN  ((x \div SqrtScale) * y) \div SqrtScale + ((x % SqrtScale) * y) \div Scale

\* a / b for fixed-point 0 <= a <= Scale and 0 < b <= 2 * Scale.
DivFix(a, b) ==
    LET x == a * SqrtScale
        y == b
    IN  (x \div y) * SqrtScale + ((x % y) * SqrtScale) \div y

\* n / d for two counts, d > 0.
Ratio(n, d) == (n * Scale) \div d

\* Math.min, Math.abs
MathMin(a, b) == IF a < b THEN a ELSE b

MathAbs(a) == IF a < 0 THEN -a ELSE a

\* Scale * e^(-k) for k = 0, 1, ..., rounded; 0 beyond the table.
ExpNegInt ==
    <<1000000, 367879, 135335, 49787, 18316, 6738, 2479, 912, 335, 123,
      45, 17, 6, 2, 1>>

\* The terms of the Taylor series of e^(-f) that ExpNegFrac sums.
TaylorTerms == 12

\* e^(-f) for a fixed-point 0 <= f < Scale: the alternating Taylor series.
ExpNegFrac(f) ==
    LET step[n \in 0..TaylorTerms] ==
            IF n = 0 THEN [term |-> Scale, sum |-> Scale]
            ELSE LET prev == step[n - 1]
                     t == MulFix(prev.term, f) \div n
                 IN  [term |-> t,
                      sum |-> prev.sum + (IF n % 2 = 0 THEN t ELSE -t)]
    IN  step[TaylorTerms].sum

\* Math.exp(-t) for a fixed-point t >= 0.
MathExpNeg(t) ==
    LET k == t \div Scale IN
    IF k >= Len(ExpNegInt) THEN 0
    ELSE MulFix(ExpNegFrac(t % Scale), ExpNegInt[k + 1])

(***************************************************************************)
(* StudentProfiler (StudentLogPersister.ts)                                *)
(***************************************************************************)
ALL_CATEGORIES ==
    <<"algorithm", "debugging", "explanation", "language_request",
      "code_generation", "refactoring", "testing", "other">>

\* A StudentInteractionLog, with the fields the profiler reads.  ts is the
\* rank of the ISO timestamp in the order of strings, 0 for an absent one.
LogEvent(ts, taskId, eventType, role, category, hasCode, turnIndex, adoptionStatus) ==
    [ts |-> ts, taskId |-> taskId, eventType |-> eventType, role |-> role,
     category |-> category, hasCode |-> hasCode, turnIndex |-> turnIndex,
     adoptionStatus |-> adoptionStatus]

Range(s) == {s[i] : i \in DOMAIN s}

RECURSIVE SumOver(_, _)
\* The sum of f[x] over the elements x of the set S.
SumOver(f, S) ==
    IF S = {} THEN 0
    ELSE LET x == CHOOSE y \in S : TRUE IN f[x] + SumOver(f, S \ {x})

SetMax(S) == CHOOSE x \in S : \A y \in S : y <= x

SetMin(S) == CHOOSE x \in S : \A y \in S : x <= y

\* ---- the filters of generate() ----
IsConversation(l) == l.eventType = "task_start" \/ l.eventType = "turn_message"

IsUserTurn(l) == l.role = "user"

IsAssistantTurn(l) == l.role = "assistant"

IsCodeEdit(l) == l.eventType = "code_edit"

IsAdoptionLog(l) == l.eventType = "adoption_infer"

HasCode(l) == l.hasCode

IsDetermined(l) == l.adoptionStatus # Absent /\ l.adoptionStatus # "unknown"

IsAdopted(l) == l.adoptionStatus = "adopted"

IsDebugging(l) == l.category = "debugging"

\* ---- calcAiDependency ----
calcAiDependency(userCount, assistantCount) ==
    LET total == userCount + assistantCount IN
    IF total > 0 THEN Ratio(assistantCount, total) ELSE 0

\* Mutant of calcCodeEditRatio: the clamp to 1 is lost.
calcCodeEditRatioUnclamped(codeEditCount, assistantTurns) ==
    LET assistantWithCode == Len(SelectSeq(assistantTurns, HasCode)) IN
    IF assistantWithCode = 0 THEN 0
    ELSE Ratio(codeEditCount, assistantWithCode)

\* ---- calcCodeEditRatio ----
calcCodeEditRatio(codeEditCount, assistantTurns) ==
    LET assistantWithCode == Len(SelectSeq(assistantTurns, HasCode)) IN
    IF assistantWithCode = 0 THEN 0
    ELSE MathMin(Ratio(codeEditCount, assistantWithCode), Scale)

\* Mutant of calcAdoptionRate: the unknown verdicts stay in the denominator.
calcAdoptionRateOverAll(adoptionLogs) ==
    LET adopted == Len(SelectSeq(adoptionLogs, IsAdopted))
    IN  IF Len(adoptionLogs) = 0 THEN 0 ELSE Ratio(adopted, Len(adoptionLogs))

\* ---- calcAdoptionRate ----
calcAdoptionRate(adoptionLogs) ==
    LET determined == SelectSeq(adoptionLogs, IsDetermined)
        adopted == Len(SelectSeq(determined, IsAdopted))
    IN  IF Len(determined) = 0 THEN 0 ELSE Ratio(adopted, Len(determined))

\* ---- calcSelfModificationRate ----
calcSelfModificationRate(codeEdits, assistantTurns, uniqueTaskIds) ==
    LET tasksWithAiCode == {l.taskId : l \in Range(SelectSeq(assistantTurns, HasCode))}
        tasksWithEdit == {l.taskId : l \in Range(codeEdits)}
        overlap == Cardinality({tid \in tasksWithEdit : tid \in tasksWithAiCode})
    IN  IF Cardinality(tasksWithAiCode) = 0 THEN 0
        ELSE Ratio(overlap, Cardinality(tasksWithAiCode))

\* Mutant of calcDebuggingFrequency: the count is divided by the number of
\* categories, as calcExplorationBreadth does.
calcDebuggingFrequencyOverCategories(conversationLogs) ==
    IF Len(conversationLogs) = 0 THEN 0
    ELSE Ratio(Len(SelectSeq(conversationLogs, IsDebugging)), Len(ALL_CATEGORIES))

\* ---- calcDebuggingFrequency ----
calcDebuggingFrequency(conversationLogs) ==
    IF Len(conversationLogs) = 0 THEN 0
    ELSE Ratio(Len(SelectSeq(conversationLogs, IsDebugging)), Len(conversationLogs))

\* Mutant of calcExplorationBreadth: filter(Boolean) is lost, and an absent
\* category counts as one more.
calcExplorationBreadthCountingAbsent(conversationLogs) ==
    LET usedCategories == {l.category : l \in Range(conversationLogs)}
    IN  Ratio(Cardinality(usedCategories), Len(ALL_CATEGORIES))

\* ---- calcExplorationBreadth ----
calcExplorationBreadth(conversationLogs) ==
    LET usedCategories == {l.category : l \in Range(conversationLogs)} \ {Absent}
    IN  Ratio(Cardinality(usedCategories), Len(ALL_CATEGORIES))

\* Mutant of calcDominantCategory: the comparison is >=, and the last of the
\* categories that share the greatest count is kept.
calcDominantCategoryLastWins(conversationLogs) ==
    LET CatOf(l) == IF l.category = Absent THEN "unknown" ELSE l.category
        n == Len(conversationLogs)
        freq(cat) == Cardinality({i \in 1..n : CatOf(conversationLogs[i]) = cat})
        IsFirst(i) == \A j \in 1..(i - 1) :
                          CatOf(conversationLogs[j]) # CatOf(conversationLogs[i])
        best[i \in 0..n] ==
            IF i = 0 THEN [maxCat |-> "unknown", maxCount |-> 0]
            ELSE IF IsFirst(i) /\ freq(CatOf(conversationLogs[i])) >= best[i - 1].maxCount
            THEN [maxCat |-> CatOf(conversationLogs[i]),
                  maxCount |-> freq(CatOf(conversationLogs[i]))]
            ELSE best[i - 1]
    IN  best[n].maxCat

\* ---- calcDominantCategory ----
\* freq's keys come out of Object.entries in the order of their first
\* insertion; the loop keeps the first key whose count is the greatest.
calcDominantCategory(conversationLogs) ==
    LET CatOf(l) == IF l.category = Absent THEN "unknown" ELSE l.category
        n == Len(conversationLogs)
        freq(cat) == Cardinality({i \in 1..n : CatOf(conversationLogs[i]) = cat})
        IsFirst(i) == \A j \in 1..(i - 1) :
                          CatOf(conversationLogs[j]) # CatOf(conversationLogs[i])
        \* the loop over the entries, up to the entry first inserted at i
        best[i \in 0..n] ==
            IF i = 0 THEN [maxCat |-> "unknown", maxCount |-> 0]
            ELSE IF IsFirst(i) /\ freq(CatOf(conversationLogs[i])) > best[i - 1].maxCount
            THEN [maxCat |-> CatOf(conversationLogs[i]),
                  maxCount |-> freq(CatOf(conversationLogs[i]))]
            ELSE best[i - 1]
    IN  best[n].maxCat

\* Mutant of calcAvgTurnsPerTask: the sum is divided by the number of tasks
\* that have a conversational event (taskTurnMax.size).
calcAvgTurnsPerTaskOfTalkingTasks(conversationLogs, totalTasks) ==
    LET n == Len(conversationLogs)
        TurnsOf(l) == l.turnIndex + 1
        tasks == {l.taskId : l \in Range(conversationLogs)}
        taskTurnMax == [t \in tasks |->
            SetMax({0} \cup {TurnsOf(conversationLogs[i]) :
                        i \in {j \in 1..n : conversationLogs[j].taskId = t}})]
        totalTurns == SumOver(taskTurnMax, tasks)
    IN  IF totalTasks = 0 \/ tasks = {} THEN 0
        ELSE Ratio(totalTurns, Cardinality(tasks))

\* ---- calcAvgTurnsPerTask ----
calcAvgTurnsPerTask(conversationLogs, totalTasks) ==
    LET n == Len(conversationLogs)
        \* (log.turnIndex || 0) + 1
        TurnsOf(l) == l.turnIndex + 1
        tasks == {l.taskId : l \in Range(conversationLogs)}
        taskTurnMax == [t \in tasks |->
            SetMax({0} \cup {TurnsOf(conversationLogs[i]) :
                        i \in {j \in 1..n : conversationLogs[j].taskId = t}})]
        totalTurns == SumOver(taskTurnMax, tasks)
    IN  IF totalTasks = 0 THEN 0 ELSE Ratio(totalTurns, totalTasks)

\* ---- sigmoid ----
sigmoid(x, center, steepness) ==
    LET t == steepness * (x - center)
        e == MathExpNeg(MathAbs(t))
    IN  IF t >= 0 THEN DivFix(Scale, Scale + e) ELSE DivFix(e, Scale + e)

\* Mutant of midness: Math.abs is lost.
midnessWithoutAbs(x) == Scale - 2 * (x - Scale \div 2)

\* ---- midness ----
midness(x) == Scale - 2 * MathAbs(x - Scale \div 2)

\* ---- Object.entries(scores): the styles in the order of the literal ----
StyleOrder == <<"Dependent", "Exploratory", "Optimizer", "Debugger", "Balanced">>

\* ---- the five scores of inferLearningStyle ----
\* Mutant of styleScores: the Dependent score has lost its two "1 -".
styleScoresDependentInverted(metrics) ==
    [Dependent |->
        (4 * sigmoid(metrics.aiDependencyScore, (65 * Scale) \div 100, 10)
         + 3 * metrics.selfModificationRate
         + 3 * metrics.codeEditRatio) \div 10,
     Exploratory |->
        (30 * sigmoid(metrics.avgTurnsPerTask, 4 * Scale, 1)
         + 35 * metrics.explorationBreadth
         + 20 * metrics.codeEditRatio
         + 15 * metrics.selfModificationRate) \div 100,
     Optimizer |->
        (30 * metrics.adoptionRate
         + 35 * metrics.selfModificationRate
         + 35 * metrics.codeEditRatio) \div 100,
     Debugger |->
        (6 * metrics.debuggingFrequency
         + 2 * sigmoid(metrics.avgTurnsPerTask, 3 * Scale, 1)
         + (IF metrics.dominantCategory = "debugging" THEN 2 * Scale ELSE 0)) \div 10,
     Balanced |->
        (midness(metrics.aiDependencyScore) + midness(metrics.codeEditRatio)
         + midness(metrics.adoptionRate) + midness(metrics.selfModificationRate)) \div 4]

styleScores(metrics) ==
    [Dependent |->
        (4 * sigmoid(metrics.aiDependencyScore, (65 * Scale) \div 100, 10)
         + 3 * (Scale - metrics.selfModificationRate)
         + 3 * (Scale - metrics.codeEditRatio)) \div 10,
     Exploratory |->
        (30 * sigmoid(metrics.avgTurnsPerTask, 4 * Scale, 1)
         + 35 * metrics.explorationBreadth
         + 20 * metrics.codeEditRatio
         + 15 * metrics.selfModificationRate) \div 100,
     Optimizer |->
        (30 * metrics.adoptionRate
         + 35 * metrics.selfModificationRate
         + 35 * metrics.codeEditRatio) \div 100,
     Debugger |->
        (6 * metrics.debuggingFrequency
         + 2 * sigmoid(metrics.avgTurnsPerTask, 3 * Scale, 1)
         + (IF metrics.dominantCategory = "debugging" THEN 2 * Scale ELSE 0)) \div 10,
     Balanced |->
        (midness(metrics.aiDependencyScore) + midness(metrics.codeEditRatio)
         + midness(metrics.adoptionRate) + midness(metrics.selfModificationRate)) \div 4]

\* Mutant of bestOf: the comparison is >=, and the last of the styles that
\* share the greatest score is kept.
bestOfLastWins(scores) ==
    LET best[i \in 0..Len(StyleOrder)] ==
            IF i = 0 THEN [bestStyle |-> "Balanced", bestScore |-> 0]
            ELSE IF scores[StyleOrder[i]] >= best[i - 1].bestScore
            THEN [bestStyle |-> StyleOrder[i], bestScore |-> scores[StyleOrder[i]]]
            ELSE best[i - 1]
    IN  best[Len(StyleOrder)]

\* ---- the selection loop of inferLearningStyle ----
bestOf(scores) ==
    LET best[i \in 0..Len(StyleOrder)] ==
            IF i = 0 THEN [bestStyle |-> "Balanced", bestScore |-> 0]
            ELSE IF scores[StyleOrder[i]] > best[i - 1].bestScore
            THEN [bestStyle |-> StyleOrder[i], bestScore |-> scores[StyleOrder[i]]]
            ELSE best[i - 1]
    IN  best[Len(StyleOrder)]

\* Mutant of toFixed3: the digits after the third are cut off.
toFixed3Truncating(x) == (x \div SqrtScale) * SqrtScale

\* ---- parseFloat(x.toFixed(3)) ----
toFixed3(x) == ((x + (SqrtScale \div 2)) \div SqrtScale) * SqrtScale

\* ---- inferLearningStyle ----
inferLearningStyle(metrics) ==
    LET scores == styleScores(metrics)
        chosen == bestOf(scores)
        values == {scores[StyleOrder[i]] : i \in DOMAIN StyleOrder}
        \* sortedScores[0] and sortedScores[1]
        first == SetMax(values)
        second == IF \E i, j \in DOMAIN StyleOrder :
                        i # j /\ scores[StyleOrder[i]] = first
                              /\ scores[StyleOrder[j]] = first
                  THEN first
                  ELSE SetMax(values \ {first})
        gap == first - second
        confidence == MathMin((6 * chosen.bestScore + 4 * gap) \div 10, Scale)
    IN  IF chosen.bestScore < (3 * Scale) \div 10
        THEN [style |-> "Balanced", confidence |-> chosen.bestScore]
        ELSE [style |-> chosen.bestStyle, confidence |-> toFixed3(confidence)]

\* ---- generateStudentProfile (scripts/analyze-student-log.ts): the style
\* and confidence it returns for the metrics it has computed.  The scores,
\* the loop and the confidence are those of inferLearningStyle; the
\* fallback overwrites style and confidence, and toFixed(3) is applied to
\* whichever confidence is returned. ----
generateStudentProfileStyle(metrics) ==
    LET scores == styleScores(metrics)
        chosen == bestOf(scores)
        values == {scores[StyleOrder[i]] : i \in DOMAIN StyleOrder}
        first == SetMax(values)
        second == IF \E i, j \in DOMAIN StyleOrder :
                        i # j /\ scores[StyleOrder[i]] = first
                              /\ scores[StyleOrder[j]] = first
                  THEN first
                  ELSE SetMax(values \ {first})
        gap == first - second
        styleConfidence == MathMin((6 * chosen.bestScore + 4 * gap) \div 10, Scale)
    IN  IF chosen.bestScore < (3 * Scale) \div 10
        THEN [style |-> "Balanced", confidence |-> toFixed3(chosen.bestScore)]
        ELSE [style |-> chosen.bestStyle, confidence |-> toFixed3(styleConfidence)]

\* Mutant of timeRangeOf: sort() is lost, and the range is taken from the
\* first and the last record of the log.
timeRangeOfEnds(lg) ==
    LET timestamps == SelectSeq([i \in DOMAIN lg |-> lg[i].ts], LAMBDA t : t # 0)
    IN  [start |-> IF timestamps = <<>> THEN 0 ELSE timestamps[1],
         end |-> IF timestamps = <<>> THEN 0 ELSE timestamps[Len(timestamps)]]

\* ---- generate: timeRange, from the sorted timestamps of the log ----
timeRangeOf(lg) ==
    LET timestamps == {l.ts : l \in Range(lg)} \ {0}
    IN  [start |-> IF timestamps = {} THEN 0 ELSE SetMin(timestamps),
         end |-> IF timestamps = {} THEN 0 ELSE SetMax(timestamps)]

\* Mutant of logsAfterGenerate: the log itself is sorted by timestamp.
logsAfterGenerateSorted(lg) == SortSeq(lg, LAMBDA a, b : a.ts < b.ts)

\* ---- generate: this.logs after the call.  The log is only read: filter
\* and map return new arrays, and sort() is applied to the mapped one. ----
logsAfterGenerate(lg) == lg

\* ---- generate ----
generate(lg, dateNow) ==
    LET conversationLogs == SelectSeq(lg, IsConversation)
        userTurns == SelectSeq(conversationLogs, IsUserTurn)
        assistantTurns == SelectSeq(conversationLogs, IsAssistantTurn)
        codeEdits == SelectSeq(lg, IsCodeEdit)
        adoptionLogs == SelectSeq(lg, IsAdoptionLog)
        uniqueTaskIds == {l.taskId : l \in Range(lg)}
        totalTasks == Cardinality(uniqueTaskIds)
        measured ==
            [avgTurnsPerTask |-> calcAvgTurnsPerTask(conversationLogs, totalTasks),
             aiDependencyScore |-> calcAiDependency(Len(userTurns), Len(assistantTurns)),
             codeEditRatio |-> calcCodeEditRatio(Len(codeEdits), assistantTurns),
             adoptionRate |-> calcAdoptionRate(adoptionLogs),
             selfModificationRate |->
                calcSelfModificationRate(codeEdits, assistantTurns, uniqueTaskIds),
             debuggingFrequency |-> calcDebuggingFrequency(conversationLogs),
             explorationBreadth |-> calcExplorationBreadth(conversationLogs),
             dominantCategory |-> calcDominantCategory(conversationLogs)]
        inferred == inferLearningStyle(measured)
    IN  [totalTasks |-> totalTasks,
         avgTurnsPerTask |-> measured.avgTurnsPerTask,
         totalInteractions |-> Len(lg),
         aiDependencyScore |-> measured.aiDependencyScore,
         codeEditRatio |-> measured.codeEditRatio,
         adoptionRate |-> measured.adoptionRate,
         selfModificationRate |-> measured.selfModificationRate,
         debuggingFrequency |-> measured.debuggingFrequency,
         explorationBreadth |-> measured.explorationBreadth,
         dominantCategory |-> measured.dominantCategory,
         learningStyle |-> inferred.style,
         styleConfidence |-> inferred.confidence,
         generatedAt |-> dateNow,
         timeRange |-> timeRangeOf(lg)]

(***************************************************************************)
(* The tracker's state machine.                                            *)
(***************************************************************************)
Init ==
    /\ pendingTurns = {}
    /\ now = 0
    /\ call = Called("new", "", FALSE, FALSE, FALSE, "void")
    /\ sinceReg = [t \in TaskIds |-> [edit |-> FALSE, save |-> FALSE]]
    /\ life = [t \in TaskIds |-> "never"]
    /\ logs = <<>>
    /\ profile = <<>>
    /\ helper = <<>>
    /\ turnIndexMap = {}
    /\ handedOut = [t \in TaskIds |-> <<>>]
    /\ activeTaskId = Absent
    /\ listening = TRUE
    /\ pendingEdits = {}
    /\ timers = {}
    /\ flights = {}
    /\ events = <<>>

RegisterAssistantTurn ==
    \E taskId \in TaskIds, turnIndex \in 0..MaxTurnIndex,
       suggestionType \in SuggestionInputs, hasCode \in BOOLEAN :
        /\ pendingTurns' = registerAssistantTurn(pendingTurns, taskId, turnIndex,
                                                 suggestionType, hasCode, now, now)
        /\ call' = Called("registerAssistantTurn", taskId, FALSE,
                        hasPendingTurn(pendingTurns, taskId),
                        isTimedOut(pendingTurns, taskId, now), "void")
        /\ sinceReg' = [sinceReg EXCEPT ![taskId] = [edit |-> FALSE, save |-> FALSE]]
        /\ life' = [life EXCEPT ![taskId] = "pending"]
        /\ UNCHANGED <<now, profilerVars, helper,
                   persisterVars, trackingVars>>

OnCodeEdit ==
    \E taskId \in TaskIds :
        /\ pendingTurns' = onCodeEdit(pendingTurns, taskId)
        /\ call' = Called("onCodeEdit", taskId, FALSE,
                        hasPendingTurn(pendingTurns, taskId),
                        isTimedOut(pendingTurns, taskId, now), "void")
        /\ sinceReg' = [sinceReg EXCEPT ![taskId].edit = TRUE]
        /\ UNCHANGED <<now, life, profilerVars, helper,
                   persisterVars, trackingVars>>

OnFileSave ==
    \E taskId \in TaskIds :
        /\ pendingTurns' = onFileSave(pendingTurns, taskId)
        /\ call' = Called("onFileSave", taskId, FALSE,
                        hasPendingTurn(pendingTurns, taskId),
                        isTimedOut(pendingTurns, taskId, now), "void")
        /\ sinceReg' = [sinceReg EXCEPT ![taskId].save = TRUE]
        /\ UNCHANGED <<now, life, profilerVars, helper,
                   persisterVars, trackingVars>>

OnUserMessage ==
    \E taskId \in TaskIds, isSameTopic \in BOOLEAN :
        LET r == onUserMessage(pendingTurns, taskId, isSameTopic) IN
        /\ pendingTurns' = r.map
        /\ call' = Called("onUserMessage", taskId, isSameTopic,
                        hasPendingTurn(pendingTurns, taskId),
                        isTimedOut(pendingTurns, taskId, now), r.status)
        /\ life' = [life EXCEPT ![taskId] =
                        IF life[taskId] = "pending" THEN "resolved" ELSE @]
        /\ UNCHANGED <<now, sinceReg, profilerVars, helper,
                   persisterVars, trackingVars>>

FinalizeIfPending ==
    \E taskId \in TaskIds :
        LET r == finalizeIfPending(pendingTurns, taskId, now) IN
        /\ pendingTurns' = r.map
        /\ call' = Called("finalizeIfPending", taskId, FALSE,
                        hasPendingTurn(pendingTurns, taskId),
                        isTimedOut(pendingTurns, taskId, now), r.status)
        /\ life' = [life EXCEPT ![taskId] =
                        IF life[taskId] = "pending" THEN "resolved" ELSE @]
        /\ UNCHANGED <<now, sinceReg, profilerVars, helper,
                   persisterVars, trackingVars>>

Clear ==
    /\ pendingTurns' = {}
    /\ call' = Called("clear", "", FALSE, FALSE, FALSE, "void")
    /\ life' = [t \in TaskIds |-> IF life[t] = "pending" THEN "cleared" ELSE life[t]]
    /\ UNCHANGED <<now, sinceReg, profilerVars, helper,
                   persisterVars, trackingVars>>

\* Time passes between two calls.
Tick ==
    /\ now + TickMs <= MaxTick * TickMs
    /\ now' = now + TickMs
    /\ UNCHANGED <<trackerVars, profilerVars, helper,
                   persisterVars, trackingVars>>

Next ==
    \/ RegisterAssistantTurn
    \/ OnCodeEdit
    \/ OnFileSave
    \/ OnUserMessage
    \/ FinalizeIfPending
    \/ Clear
    \/ Tick

Spec == Init /\ [][Next]_vars

(***************************************************************************)
(* The profiler's state machine: a log is read, event by event, and         *)
(* generate() is called on it.                                             *)
(***************************************************************************)
\* The events of the logs: what the extension writes for each event type.
\* ts is the time of arrival.
LogCategories == {"debugging", "algorithm"}

TaskStartInputs(ts) ==
    {LogEvent(ts, t, "task_start", "user", c, FALSE, 0, Absent) :
        t \in TaskIds, c \in LogCategories}

UserTurnInputs(ts) ==
    {LogEvent(ts, t, "turn_message", "user", c, FALSE, 1, Absent) :
        t \in TaskIds, c \in LogCategories}

AssistantTurnInputs(ts) ==
    {LogEvent(ts, t, "turn_message", "assistant", "debugging", h, 1, Absent) :
        t \in TaskIds, h \in BOOLEAN}

CodeEditInputs(ts) ==
    {LogEvent(ts, t, "code_edit", "user", "other", TRUE, -1, Absent) :
        t \in TaskIds}

FileSaveInputs(ts) ==
    {LogEvent(ts, "taskA", "file_save", "user", "other", TRUE, -1, Absent)}

AdoptionInputs(ts) ==
    {LogEvent(ts, "taskA", "adoption_infer", "assistant", "other", FALSE, 1, a) :
        a \in {"adopted", "rejected", "unknown", Absent}}

\* readAll() yields one more record of the log file.
ReadLog ==
    /\ Len(logs) < MaxLog
    /\ profile = <<>>
    /\ \E l \in TaskStartInputs(Len(logs) + 1) \cup UserTurnInputs(Len(logs) + 1)
                \cup AssistantTurnInputs(Len(logs) + 1)
                \cup CodeEditInputs(Len(logs) + 1)
                \cup FileSaveInputs(Len(logs) + 1)
                \cup AdoptionInputs(Len(logs) + 1) :
           logs' = Append(logs, l)
    /\ UNCHANGED <<now, trackerVars, profile, helper,
                   persisterVars, trackingVars>>

\* new StudentProfiler(logs).generate(); a call that follows another one
\* reads a later clock.
Generate ==
    /\ profile' = <<generate(logs, now + Len(profile))>>
    /\ logs' = logsAfterGenerate(logs)
    /\ UNCHANGED <<now, trackerVars, helper,
                   persisterVars, trackingVars>>

NextProfiler ==
    \/ ReadLog
    \/ Generate

SpecProfiler == Init /\ [][NextProfiler]_vars

(***************************************************************************)
(* The profiler on logs that span the categories: for every set of         *)
(* categories, the absent one included, a task whose conversational events *)
(* carry the categories of the set, one each, followed or not by a code    *)
(* edit (which the CodeEditTracker logs under the category "other").       *)
(***************************************************************************)
\* Every TaskCategory, and none.
CategoryInputs == Range(ALL_CATEGORIES) \cup {Absent}

CategoryLog(categories, withEdit) ==
    LET cs == SelectSeq(ALL_CATEGORIES \o <<Absent>>, LAMBDA c : c \in categories)
        turns == [i \in 1..Len(cs) |->
                    LogEvent(i, "taskA",
                             IF i = 1 THEN "task_start" ELSE "turn_message",
                             IF i % 2 = 1 THEN "user" ELSE "assistant",
                             cs[i], FALSE, i - 1, Absent)]
    IN  IF withEdit
        THEN Append(turns, LogEvent(Len(cs) + 1, "taskA", "code_edit", "user",
                                    "other", TRUE, -1, Absent))
        ELSE turns

CategoryLogs ==
    {CategoryLog(categories, withEdit) :
        categories \in SUBSET CategoryInputs, withEdit \in BOOLEAN}

\* new StudentProfiler(logs), for one of these logs
InitCategories ==
    /\ pendingTurns = {}
    /\ now = 0
    /\ call = Called("new", "", FALSE, FALSE, FALSE, "void")
    /\ sinceReg = [t \in TaskIds |-> [edit |-> FALSE, save |-> FALSE]]
    /\ life = [t \in TaskIds |-> "never"]
    /\ logs \in CategoryLogs
    /\ profile = <<>>
    /\ helper = <<>>
    /\ turnIndexMap = {}
    /\ handedOut = [t \in TaskIds |-> <<>>]
    /\ activeTaskId = Absent
    /\ listening = TRUE
    /\ pendingEdits = {}
    /\ timers = {}
    /\ flights = {}
    /\ events = <<>>

SpecCategories == InitCategories /\ [][Generate]_vars

(***************************************************************************)
(* The profiler on logs that are not sorted by time: every order of the    *)
(* records of one log with two tasks and every event type.                 *)
(***************************************************************************)
SortedLog ==
    <<LogEvent(1, "taskA", "task_start", "user", "debugging", FALSE, 0, Absent),
      LogEvent(2, "taskA", "turn_message", "assistant", "debugging", TRUE, 1, Absent),
      LogEvent(3, "taskA", "code_edit", "user", "other", TRUE, -1, Absent),
      LogEvent(4, "taskB", "turn_message", "user", "algorithm", FALSE, 2, Absent),
      LogEvent(5, "taskA", "adoption_infer", "assistant", "other", FALSE, 1, "adopted")>>

ShuffledLogs ==
    {lg \in [DOMAIN SortedLog -> Range(SortedLog)] : Range(lg) = Range(SortedLog)}

\* new StudentProfiler(logs), for one of these logs
InitShuffled ==
    /\ pendingTurns = {}
    /\ now = 0
    /\ call = Called("new", "", FALSE, FALSE, FALSE, "void")
    /\ sinceReg = [t \in TaskIds |-> [edit |-> FALSE, save |-> FALSE]]
    /\ life = [t \in TaskIds |-> "never"]
    /\ logs \in ShuffledLogs
    /\ profile = <<>>
    /\ helper = <<>>
    /\ turnIndexMap = {}
    /\ handedOut = [t \in TaskIds |-> <<>>]
    /\ activeTaskId = Absent
    /\ listening = TRUE
    /\ pendingEdits = {}
    /\ timers = {}
    /\ flights = {}
    /\ events = <<>>

SpecShuffled == InitShuffled /\ [][Generate]_vars

(***************************************************************************)
(* The pure helpers, each applied to arguments drawn from a bounded set.   *)
(***************************************************************************)
\* AdoptionTracker.isSameTopicHeuristic(prevCategory, currentCategory).  The
\* helpers are pure: one call of one of them is observed in a behaviour.
IsSameTopicHeuristic ==
    /\ helper = <<>>
    /\ \E prevCategory, currentCategory \in CategoryInputs :
          helper' = <<[fn |-> "isSameTopicHeuristic",
                       prevCategory |-> prevCategory,
                       currentCategory |-> currentCategory,
                       ret |-> isSameTopicHeuristic(prevCategory, currentCategory)]>>
    /\ UNCHANGED <<now, trackerVars, profilerVars,
                   persisterVars, trackingVars>>

\* The values of a rate on the grid of metrics.
RateInputs == {0, Scale \div 2, Scale}

\* The metrics generate() passes to inferLearningStyle, on a grid.  The
\* filter keeps the combinations that some log produces:
\*  - a log without conversational events has avgTurnsPerTask = 0, and then
\*    every metric but adoptionRate is 0 and the dominant category is
\*    "unknown"; a log with conversational events has avgTurnsPerTask > 0,
\*    a dominant category and a breadth of 1/8 at least;
\*  - selfModificationRate > 0 needs a code edit and an assistant turn with
\*    code, hence codeEditRatio > 0, which needs aiDependencyScore > 0;
\*  - the dominant category is "debugging" only if debuggingFrequency > 0,
\*    and always if debuggingFrequency = 1, when the breadth is 1/8; a
\*    breadth of 1 includes debugging and another category.
MetricInputs ==
    {m \in [aiDependencyScore : RateInputs \cup {(65 * Scale) \div 100},
            codeEditRatio : RateInputs,
            adoptionRate : RateInputs,
            selfModificationRate : RateInputs,
            debuggingFrequency : RateInputs,
            explorationBreadth : {0, Scale \div 8, Scale},
            avgTurnsPerTask : {0, 3 * Scale, 20 * Scale},
            dominantCategory : {"debugging", "algorithm", "unknown"}] :
        /\ m.avgTurnsPerTask = 0 =>
              /\ m.aiDependencyScore = 0 /\ m.codeEditRatio = 0
              /\ m.selfModificationRate = 0 /\ m.debuggingFrequency = 0
              /\ m.explorationBreadth = 0 /\ m.dominantCategory = "unknown"
        /\ m.avgTurnsPerTask > 0 =>
              m.dominantCategory # "unknown" /\ m.explorationBreadth > 0
        /\ m.selfModificationRate > 0 => m.codeEditRatio > 0
        /\ m.codeEditRatio > 0 => m.aiDependencyScore > 0
        /\ m.dominantCategory = "debugging" => m.debuggingFrequency > 0
        /\ m.debuggingFrequency = Scale =>
              m.dominantCategory = "debugging" /\ m.explorationBreadth = Scale \div 8
        /\ m.explorationBreadth = Scale =>
              m.debuggingFrequency > 0 /\ m.debuggingFrequency < Scale}

\* this.inferLearningStyle(metrics), with the scores it computes on the way
\* and with what the script returns for the same metrics
InferLearningStyle ==
    /\ helper = <<>>
    /\ \E metrics \in MetricInputs :
          helper' = <<[fn |-> "inferLearningStyle",
                       metrics |-> metrics,
                       scores |-> styleScores(metrics),
                       ret |-> inferLearningStyle(metrics),
                       script |-> generateStudentProfileStyle(metrics)]>>
    /\ UNCHANGED <<now, trackerVars, profilerVars,
                   persisterVars, trackingVars>>

NextHelpers ==
    \/ IsSameTopicHeuristic
    \/ InferLearningStyle

SpecHelpers == Init /\ [][NextHelpers]_vars

(***************************************************************************)
(* StudentLogPersister: the per-task turn counter.                         *)
(***************************************************************************)
\* Mutant of getNextTurnIndex: the counter is incremented before it is read.
getNextTurnIndexPreIncrement(m, taskId) ==
    LET current == IF MapHas(m, taskId) THEN MapGet(m, taskId) ELSE 0
    IN  [ret |-> current + 1, map |-> MapSet(m, taskId, current + 1)]

\* ---- getNextTurnIndex: the index it returns and the Map it leaves ----
getNextTurnIndex(m, taskId) ==
    LET current == IF MapHas(m, taskId) THEN MapGet(m, taskId) ELSE 0
    IN  [ret |-> current, map |-> MapSet(m, taskId, current + 1)]

\* ---- resetTurnIndex: the Map it leaves ----
resetTurnIndex(m, taskId) == MapSet(m, taskId, 0)

\* new StudentLogPersister(cwd), and nothing else.
InitPersister ==
    /\ pendingTurns = {}
    /\ now = 0
    /\ call = Called("new", "", FALSE, FALSE, FALSE, "void")
    /\ sinceReg = [t \in TaskIds |-> [edit |-> FALSE, save |-> FALSE]]
    /\ life = [t \in TaskIds |-> "never"]
    /\ logs = <<>>
    /\ profile = <<>>
    /\ helper = <<>>
    /\ turnIndexMap = {}
    /\ handedOut = [t \in TaskIds |-> <<>>]
    /\ activeTaskId = Absent
    /\ listening = TRUE
    /\ pendingEdits = {}
    /\ timers = {}
    /\ flights = {}
    /\ events = <<>>

GetNextTurnIndex ==
    \E taskId \in TaskIds :
        LET r == getNextTurnIndex(turnIndexMap, taskId) IN
        /\ Len(handedOut[taskId]) < MaxHandOut
        /\ turnIndexMap' = r.map
        /\ handedOut' = [handedOut EXCEPT ![taskId] =
                            Append(@, [op |-> "getNextTurnIndex", ret |-> r.ret])]
        /\ UNCHANGED <<now, trackerVars, profilerVars, helper, trackingVars>>

ResetTurnIndex ==
    \E taskId \in TaskIds :
        /\ Len(handedOut[taskId]) < MaxHandOut
        /\ turnIndexMap' = resetTurnIndex(turnIndexMap, taskId)
        /\ handedOut' = [handedOut EXCEPT ![taskId] =
                            Append(@, [op |-> "resetTurnIndex", ret |-> 0])]
        /\ UNCHANGED <<now, trackerVars, profilerVars, helper, trackingVars>>

NextPersister ==
    \/ GetNextTurnIndex
    \/ ResetTurnIndex

SpecPersister == InitPersister /\ [][NextPersister]_vars

(***************************************************************************)
(* CodeEditTracker: document changes debounced per file by timers, and     *)
(* flushEdit and onDocumentSave suspended at their await.                  *)
(***************************************************************************)
DEBOUNCE_MS == 2000

\* The clock advances in steps of the debounce interval: two changes come
\* less than DEBOUNCE_MS apart when they come at the same time of this
\* clock.
EditorTickMs == DEBOUNCE_MS

\* A document: the scheme of its uri and its fsPath, as the directories
\* from the root, the base name of the file and its extension.
Document(scheme, dirs, base, ext) ==
    [scheme |-> scheme, fsPath |-> [dirs |-> dirs, base |-> base, ext |-> ext]]

Documents ==
    {Document("file", <<"w", "src">>, "a", ".ts"),
     Document("file", <<"w", "node_modules">>, "x", ".js"),
     Document("untitled", <<"w", "src">>, "a", ".ts")}

\* The character deltas of a change event.
Deltas == {1, 2}

\* ---- shouldIgnore: IGNORE_PATTERNS, a directory of the path or the end
\* of the file name ----
shouldIgnore(filePath) ==
    \/ \E i \in DOMAIN filePath.dirs :
          filePath.dirs[i] \in {".git", "node_modules", ".cline-logs", "dist", "out"}
    \/ filePath.ext \in {".log", ".lock"}
    \/ filePath.base = "package-lock" /\ filePath.ext = ".json"
    \/ filePath.base = "pnpm-lock" /\ filePath.ext = ".yaml"

\* asRelativePath: the path from the workspace root, the first directory.
asRelativePath(filePath) == [filePath EXCEPT !.dirs = Tail(@)]

\* Mutant of editTurnIndex: the event takes the next turn index of its task.
editTurnIndexConsuming(m, taskId) == getNextTurnIndex(m, taskId)

\* ---- turnIndex: -1 of the code_edit and file_save logs: the sentinel,
\* and the turn counter as the handlers leave it (they do not call
\* getNextTurnIndex) ----
editTurnIndex(m, taskId) == [ret |-> -1, map |-> m]

\* ---- the log flushEdit builds ----
CodeEditLog(ts, taskId, turnIndex, filePath, changeDelta) ==
    [ts |-> ts, taskId |-> taskId, eventType |-> "code_edit", role |-> "user",
     category |-> "other", hasCode |-> TRUE, turnIndex |-> turnIndex,
     adoptionStatus |-> Absent, filePath |-> asRelativePath(filePath),
     changeDelta |-> changeDelta]

\* ---- the log onDocumentSave builds ----
FileSaveLog(ts, taskId, turnIndex, filePath) ==
    [ts |-> ts, taskId |-> taskId, eventType |-> "file_save", role |-> "user",
     category |-> "other", hasCode |-> TRUE, turnIndex |-> turnIndex,
     adoptionStatus |-> Absent, filePath |-> asRelativePath(filePath)]

\* The handle setTimeout returns next, and the identity of the next
\* PendingEdit object: one per event delivered so far.
NextHandle == Len(events) + 1

\* A timer whose delay has elapsed runs before the events that arrive at or
\* after that time.
NoTimerDue == \A tm \in timers : tm.due > now

\* A tracker that has been constructed, with a persister that has handed
\* out two indexes to taskA, and an adoption tracker that holds a pending
\* turn of taskA.
InitEditor ==
    /\ pendingTurns = registerAssistantTurn({}, "taskA", 0, "code_generation",
                                            TRUE, 0, 0)
    /\ now = 0
    /\ call = Called("registerAssistantTurn", "taskA", FALSE, FALSE, FALSE, "void")
    /\ sinceReg = [t \in TaskIds |-> [edit |-> FALSE, save |-> FALSE]]
    /\ life = [t \in TaskIds |-> IF t = "taskA" THEN "pending" ELSE "never"]
    /\ logs = <<>>
    /\ profile = <<>>
    /\ helper = <<>>
    /\ turnIndexMap = getNextTurnIndex(getNextTurnIndex({}, "taskA").map, "taskA").map
    /\ handedOut = [t \in TaskIds |-> <<>>]
    /\ activeTaskId = Absent
    /\ listening = TRUE
    /\ pendingEdits = {}
    /\ timers = {}
    /\ flights = {}
    /\ events = <<>>

SetContext ==
    \E taskId \in TaskIds :
        /\ activeTaskId' = taskId
        /\ UNCHANGED <<now, trackerVars, profilerVars, helper, persisterVars,
                       listening, pendingEdits, timers, flights, events>>

ClearContext ==
    /\ activeTaskId' = Absent
    /\ UNCHANGED <<now, trackerVars, profilerVars, helper, persisterVars,
                   listening, pendingEdits, timers, flights, events>>

\* ---- onDocumentChange, an entry exists: clearTimeout(existing.timer) and
\* setTimeout ----
mergeTimer(ts, existing, timer) ==
    {tm \in ts : tm.handle # existing.timer} \cup {timer}

\* vscode.workspace.onDidChangeTextDocument
OnDocumentChange ==
    /\ listening
    /\ Len(events) < MaxEvents
    /\ NoTimerDue
    /\ \E document \in Documents, delta \in Deltas :
        LET filePath == document.fsPath
            timer == [handle |-> NextHandle, filePath |-> filePath,
                      due |-> now + DEBOUNCE_MS]
        IN
        IF \/ activeTaskId = Absent
           \/ shouldIgnore(filePath)
           \/ document.scheme # "file"
        THEN UNCHANGED vars
        ELSE
            /\ IF MapHas(pendingEdits, filePath)
               THEN LET existing == MapGet(pendingEdits, filePath)
                        merged == [existing EXCEPT !.totalDelta = @ + delta,
                                                   !.timer = NextHandle]
                    IN  /\ pendingEdits' = MapSet(pendingEdits, filePath, merged)
                        /\ timers' = mergeTimer(timers, existing, timer)
                        \* a flushEdit suspended on this object sees it change
                        /\ flights' =
                              {IF fl.kind = "flushEdit" /\ fl.pending.obj = existing.obj
                               THEN [fl EXCEPT !.pending = merged]
                               ELSE fl : fl \in flights}
                        /\ events' = Append(events,
                              [kind |-> "change", filePath |-> filePath,
                               delta |-> delta, at |-> now,
                               taskId |-> activeTaskId, obj |-> existing.obj])
               ELSE /\ pendingEdits' = MapSet(pendingEdits, filePath,
                          [obj |-> NextHandle, filePath |-> filePath,
                           totalDelta |-> delta, timer |-> NextHandle])
                    /\ timers' = timers \cup {timer}
                    /\ flights' = flights
                    /\ events' = Append(events,
                          [kind |-> "change", filePath |-> filePath,
                           delta |-> delta, at |-> now,
                           taskId |-> activeTaskId, obj |-> NextHandle])
            /\ pendingTurns' = onCodeEdit(pendingTurns, activeTaskId)
            /\ sinceReg' = [sinceReg EXCEPT ![activeTaskId].edit = TRUE]
            /\ UNCHANGED <<now, call, life, profilerVars, helper, persisterVars,
                           activeTaskId, listening>>

\* The debounce timer fires: flushEdit(filePath), up to its await.
FlushEdit ==
    \E tm \in timers :
        /\ tm.due <= now
        /\ timers' = timers \ {tm}
        /\ IF ~MapHas(pendingEdits, tm.filePath) \/ activeTaskId = Absent
           THEN /\ pendingEdits' = MapDelete(pendingEdits, tm.filePath)
                /\ flights' = flights
           ELSE /\ pendingEdits' = pendingEdits
                /\ flights' = flights \cup
                      {[kind |-> "flushEdit", handle |-> tm.handle,
                        filePath |-> tm.filePath,
                        pending |-> MapGet(pendingEdits, tm.filePath)]}
        /\ UNCHANGED <<now, trackerVars, profilerVars, helper, persisterVars,
                       activeTaskId, listening, events>>

\* flushEdit after its await.  The task id and the persister are read now;
\* without a persister the call throws before persist and before delete.
FlushEditResume ==
    \E fl \in flights :
        /\ fl.kind = "flushEdit"
        /\ flights' = flights \ {fl}
        /\ IF activeTaskId = Absent
           THEN UNCHANGED <<logs, pendingEdits, turnIndexMap>>
           ELSE LET turn == editTurnIndex(turnIndexMap, activeTaskId) IN
                /\ logs' = Append(logs,
                      CodeEditLog(now, activeTaskId, turn.ret, fl.filePath,
                                  fl.pending.totalDelta))
                /\ turnIndexMap' = turn.map
                /\ pendingEdits' = MapDelete(pendingEdits, fl.filePath)
        /\ UNCHANGED <<now, trackerVars, profile, helper, handedOut,
                       activeTaskId, listening, timers, events>>

\* vscode.workspace.onDidSaveTextDocument: onDocumentSave up to its await.
OnDocumentSave ==
    /\ listening
    /\ Len(events) < MaxEvents
    /\ NoTimerDue
    /\ \E document \in Documents :
        LET filePath == document.fsPath IN
        IF \/ activeTaskId = Absent
           \/ shouldIgnore(filePath)
           \/ document.scheme # "file"
        THEN UNCHANGED vars
        ELSE
            /\ pendingTurns' = onFileSave(pendingTurns, activeTaskId)
            /\ sinceReg' = [sinceReg EXCEPT ![activeTaskId].save = TRUE]
            /\ flights' = flights \cup
                  {[kind |-> "onDocumentSave", handle |-> NextHandle,
                    filePath |-> filePath]}
            /\ events' = Append(events,
                  [kind |-> "save", filePath |-> filePath, delta |-> 0,
                   at |-> now, taskId |-> activeTaskId, obj |-> 0])
            /\ UNCHANGED <<now, call, life, profilerVars, helper, persisterVars,
                           activeTaskId, listening, pendingEdits, timers>>

\* onDocumentSave after its await.
OnDocumentSaveResume ==
    \E fl \in flights :
        /\ fl.kind = "onDocumentSave"
        /\ flights' = flights \ {fl}
        /\ IF activeTaskId = Absent
           THEN UNCHANGED <<logs, turnIndexMap>>
           ELSE LET turn == editTurnIndex(turnIndexMap, activeTaskId) IN
                /\ logs' = Append(logs,
                      FileSaveLog(now, activeTaskId, turn.ret, fl.filePath))
                /\ turnIndexMap' = turn.map
        /\ UNCHANGED <<now, trackerVars, profile, helper, handedOut,
                       activeTaskId, listening, pendingEdits, timers, events>>

\* dispose(): the timers of the entries are cleared, the entries dropped
\* and the two listeners removed.
Dispose ==
    /\ listening
    /\ listening' = FALSE
    /\ timers' = {tm \in timers :
                     \A e \in pendingEdits : e.value.timer # tm.handle}
    /\ pendingEdits' = {}
    /\ UNCHANGED <<now, trackerVars, profilerVars, helper, persisterVars,
                   activeTaskId, flights, events>>

\* Time passes, once the timers that are due and the suspended calls have
\* run.
EditorTick ==
    /\ now + EditorTickMs <= MaxEditorTicks * EditorTickMs
    /\ NoTimerDue
    /\ flights = {}
    /\ now' = now + EditorTickMs
    /\ UNCHANGED <<trackerVars, profilerVars, helper, persisterVars, trackingVars>>

NextEditor ==
    \/ SetContext
    \/ ClearContext
    \/ OnDocumentChange
    \/ FlushEdit
    \/ FlushEditResume
    \/ OnDocumentSave
    \/ OnDocumentSaveResume
    \/ Dispose
    \/ EditorTick

SpecEditor == InitEditor /\ [][NextEditor]_vars

\* The tracker after setContext("taskA", ...), left to its changes, its
\* timers and its flushes: no save, no change of context, no dispose.
InitDebounce ==
    /\ pendingTurns = registerAssistantTurn({}, "taskA", 0, "code_generation",
                                            TRUE, 0, 0)
    /\ now = 0
    /\ call = Called("registerAssistantTurn", "taskA", FALSE, FALSE, FALSE, "void")
    /\ sinceReg = [t \in TaskIds |-> [edit |-> FALSE, save |-> FALSE]]
    /\ life = [t \in TaskIds |-> IF t = "taskA" THEN "pending" ELSE "never"]
    /\ logs = <<>>
    /\ profile = <<>>
    /\ helper = <<>>
    /\ turnIndexMap = getNextTurnIndex(getNextTurnIndex({}, "taskA").map, "taskA").map
    /\ handedOut = [t \in TaskIds |-> <<>>]
    /\ activeTaskId = "taskA"
    /\ listening = TRUE
    /\ pendingEdits = {}
    /\ timers = {}
    /\ flights = {}
    /\ events = <<>>

NextDebounce ==
    \/ OnDocumentChange
    \/ FlushEdit
    \/ FlushEditResume
    \/ EditorTick

SpecDebounce == InitDebounce /\ [][NextDebounce]_vars

(***************************************************************************)
(* Helpers of the properties.                                              *)
(***************************************************************************)
\* The step is a call of method op (Tick is the only step that moves the
\* clock, and every call records itself in call).
IsCallOf(ops) == now' = now /\ call'.op \in ops

EntriesOf(m, taskId) == {e \in m : e.key = taskId}

ResolvingOps == {"onUserMessage", "finalizeIfPending", "registerAssistantTurn"}

(***************************************************************************)
(* The properties.                                                         *)
(***************************************************************************)

\* C1: after any sequence of calls the Map holds at most one pending turn
\* per task id, filed under its own task id; after registerAssistantTurn
\* the task has exactly one, also when it had one before.
C1_AtMostOnePendingPerTask ==
    /\ \A t \in TaskIds : Cardinality(EntriesOf(pendingTurns, t)) <= 1
    /\ \A e \in pendingTurns : e.key \in TaskIds /\ e.value.taskId = e.key
    /\ call.op = "registerAssistantTurn"
        => Cardinality(EntriesOf(pendingTurns, call.taskId)) = 1

\* A second registration for a task has displaced the first, while the
\* other task has a pending turn too.
C1_Witness ==
    /\ call.op = "registerAssistantTurn"
    /\ call.hadPending
    /\ \A t \in TaskIds : MapHas(pendingTurns, t)

C4_EmptyLogProfile ==
    (logs = <<>> /\ profile # <<>>) =>
        LET p == profile[1] IN
        /\ p.totalTasks = 0 /\ p.avgTurnsPerTask = 0 /\ p.totalInteractions = 0
        /\ p.aiDependencyScore = 0 /\ p.codeEditRatio = 0 /\ p.adoptionRate = 0
        /\ p.selfModificationRate = 0 /\ p.debuggingFrequency = 0
        /\ p.explorationBreadth = 0
        /\ p.dominantCategory = "unknown"
        /\ p.learningStyle = "Balanced"
        /\ p.styleConfidence = 0

\* C5, as claimed: every operation, registerAssistantTurn included, called
\* for a task with no pending turn leaves the Map unchanged.
C5_UnknownTaskIsNoOp ==
    [][ (/\ IsCallOf({"registerAssistantTurn", "onCodeEdit", "onFileSave",
                      "onUserMessage", "finalizeIfPending"})
         /\ ~MapHas(pendingTurns, call'.taskId))
        => pendingTurns' = pendingTurns
      ]_vars

\* C5, amended: for a task with no pending turn, onCodeEdit and onFileSave
\* leave the Map unchanged, onUserMessage and finalizeIfPending leave it
\* unchanged and return unknown, and registerAssistantTurn adds the task's
\* new pending turn and leaves the other entries unchanged.
C5_UnknownTaskAmended ==
    [][ (now' = now /\ ~MapHas(pendingTurns, call'.taskId)) =>
          /\ call'.op \in {"onCodeEdit", "onFileSave"}
                => pendingTurns' = pendingTurns /\ call'.ret = "void"
          /\ call'.op \in {"onUserMessage", "finalizeIfPending"}
                => pendingTurns' = pendingTurns /\ call'.ret = "unknown"
          /\ call'.op = "registerAssistantTurn"
                => /\ MapDelete(pendingTurns', call'.taskId) = pendingTurns
                   /\ Cardinality(EntriesOf(pendingTurns', call'.taskId)) = 1
      ]_vars

\* finalizeIfPending was called for a task that was never registered, while
\* the other task had a pending turn, which is still there.
C5_Witness ==
    /\ call.op = "finalizeIfPending"
    /\ ~call.hadPending
    /\ life[call.taskId] = "never"
    /\ call.ret = "unknown"
    /\ pendingTurns # {}

\* C6: onCodeEdit and onFileSave for a task with no pending turn change
\* nothing in the Map, and the flags of a pending turn, hence the verdict
\* onUserMessage gives it, are those of the calls made since the turn's own
\* registration.
C6_EditOutsideTurnIgnored ==
    [][ /\ (IsCallOf({"onCodeEdit", "onFileSave"})
            /\ ~MapHas(pendingTurns, call'.taskId))
           => pendingTurns' = pendingTurns
        /\ (IsCallOf({"onUserMessage"}) /\ MapHas(pendingTurns, call'.taskId))
           => LET p == MapGet(pendingTurns, call'.taskId)
                  h == sinceReg[call'.taskId]
              IN  call'.ret = inferAdoption(
                      NewPendingTurn(p.taskId, p.turnIndex, p.suggestionType,
                                     p.hasCode, p.ts, p.createdAt),
                      call'.isSameTopic)
                  \/ h.edit \/ h.save
      ]_vars

\* onCodeEdit was called for a task whose turn had been resolved, and the
\* Map is empty.
C6_Witness ==
    /\ call.op = "onCodeEdit"
    /\ ~call.hadPending
    /\ life[call.taskId] = "resolved"
    /\ pendingTurns = {}

\* C7, as claimed: every call that resolves a pending turn, by
\* onUserMessage, finalizeIfPending or a displacing registerAssistantTurn,
\* returns the verdict to its caller.
C7_ResolvedVerdictReturned ==
    (call.op \in ResolvingOps /\ call.hadPending) => call.ret \in AdoptionStatus

\* C8: right after registerAssistantTurn the task's pending turn has both
\* flags false, and the flags of a pending turn are set only by the calls
\* made since its registration.
C8_FreshTurnHasNoFlags ==
    /\ call.op = "registerAssistantTurn"
        => \A e \in EntriesOf(pendingTurns, call.taskId) :
              ~e.value.hasCodeEdit /\ ~e.value.hasFileSave
    /\ \A e \in pendingTurns :
          /\ e.value.hasCodeEdit = sinceReg[e.key].edit
          /\ e.value.hasFileSave = sinceReg[e.key].save

\* A registration has displaced a pending turn, and the new turn is there
\* with its flags false.
C8_Witness ==
    /\ call.op = "registerAssistantTurn"
    /\ call.hadPending
    /\ MapHas(pendingTurns, call.taskId)
    /\ ~MapGet(pendingTurns, call.taskId).hasCodeEdit
    /\ ~MapGet(pendingTurns, call.taskId).hasFileSave

\* C9: after onUserMessage or finalizeIfPending the task has no pending
\* turn, and either of them called for a task with no pending turn returns
\* unknown.
C9_JudgedTurnIsDeleted ==
    call.op \in {"onUserMessage", "finalizeIfPending"} =>
        /\ ~MapHas(pendingTurns, call.taskId)
        /\ ~call.hadPending => call.ret = "unknown"

\* onUserMessage was called a second time for a task whose turn had been
\* resolved, and returned unknown.
C9_Witness ==
    /\ call.op = "onUserMessage"
    /\ ~call.hadPending
    /\ life[call.taskId] = "resolved"
    /\ call.ret = "unknown"

C11_TasksAreIndependent ==
    [][ IsCallOf({"registerAssistantTurn", "onCodeEdit", "onFileSave",
                  "onUserMessage", "finalizeIfPending"}) =>
          LET t == call'.taskId
              own == EntriesOf(pendingTurns, t)
              after == EntriesOf(pendingTurns', t)
          IN  /\ \A u \in TaskIds \ {t} :
                    EntriesOf(pendingTurns', u) = EntriesOf(pendingTurns, u)
              /\ call'.op = "onCodeEdit" => after = onCodeEdit(own, t)
              /\ call'.op = "onFileSave" => after = onFileSave(own, t)
              /\ call'.op = "onUserMessage" =>
                    /\ after = onUserMessage(own, t, call'.isSameTopic).map
                    /\ call'.ret = onUserMessage(own, t, call'.isSameTopic).status
              /\ call'.op = "finalizeIfPending" =>
                    /\ after = finalizeIfPending(own, t, now).map
                    /\ call'.ret = finalizeIfPending(own, t, now).status
              /\ call'.op = "registerAssistantTurn" =>
                    \E turnIndex \in 0..MaxTurnIndex,
                       suggestionType \in SuggestionInputs, hasCode \in BOOLEAN :
                        after = registerAssistantTurn(own, t, turnIndex,
                                    suggestionType, hasCode, now, now)
      ]_vars

\* A pending turn of one task was judged by onUserMessage while the other
\* task had a pending turn with an edit recorded on it, which is still
\* pending with its flag.
C11_Witness ==
    /\ call.op = "onUserMessage"
    /\ call.hadPending
    /\ \E u \in TaskIds \ {call.taskId} :
          /\ MapHas(pendingTurns, u)
          /\ MapGet(pendingTurns, u).hasCodeEdit

\* C12: isSameTopicHeuristic returns true if and only if both categories
\* are present and equal; it returns false whenever either one is absent.
C12_SameTopicIffPresentAndEqual ==
    (helper # <<>> /\ helper[1].fn = "isSameTopicHeuristic") =>
        LET h == helper[1]
            present(c) == c # Absent
        IN  /\ h.ret = TRUE <=> (/\ present(h.prevCategory)
                                 /\ present(h.currentCategory)
                                 /\ h.prevCategory = h.currentCategory)
            /\ (~present(h.prevCategory) \/ ~present(h.currentCategory))
                  => h.ret = FALSE

\* The heuristic was called with the same category twice and returned true.
C12_Witness ==
    /\ helper # <<>>
    /\ helper[1].fn = "isSameTopicHeuristic"
    /\ helper[1].prevCategory = "debugging"
    /\ helper[1].currentCategory = "debugging"
    /\ helper[1].ret = TRUE

\* C13: each of the five style scores computed by inferLearningStyle lies
\* within [0, 1.05], and the confidence it returns lies in [0, 1].
C13_ScoresAndConfidenceInRange ==
    (helper # <<>> /\ helper[1].fn = "inferLearningStyle") =>
        /\ \A i \in DOMAIN StyleOrder :
              /\ helper[1].scores[StyleOrder[i]] >= 0
              /\ helper[1].scores[StyleOrder[i]] <= (105 * Scale) \div 100
        /\ helper[1].ret.confidence >= 0
        /\ helper[1].ret.confidence <= Scale

\* inferLearningStyle was called with the metrics that give the Optimizer
\* score its greatest value, 1, and the Balanced score its least, 0.
C13_Witness ==
    /\ helper # <<>>
    /\ helper[1].fn = "inferLearningStyle"
    /\ helper[1].scores.Optimizer = Scale
    /\ helper[1].scores.Balanced = 0
    /\ helper[1].ret.confidence > 0

\* C14: explorationBreadth is in [0, 1], and it is 1 only when all eight
\* categories appear among the task-start and turn-message events of the
\* log.
C14_BreadthIsOneOnlyForAllCategories ==
    profile # <<>> =>
        LET breadth == profile[1].explorationBreadth
            conversational == {i \in DOMAIN logs :
                                 logs[i].eventType \in {"task_start", "turn_message"}}
            appearing == {logs[i].category : i \in conversational}
        IN  /\ breadth >= 0
            /\ breadth <= Scale
            /\ breadth = Scale => Range(ALL_CATEGORIES) \subseteq appearing

\* A profile with explorationBreadth 1 was generated from a log whose
\* conversational events carry all eight categories and one event without
\* a category.
C14_Witness ==
    /\ profile # <<>>
    /\ profile[1].explorationBreadth = Scale
    /\ \E i \in DOMAIN logs : logs[i].category = Absent

\* C15: for every log, events without their optional fields included, each
\* of the six metrics is in [0, 1]; a metric whose denominator is empty is
\* 0; and codeEditRatio is 1 when the code edits outnumber the assistant
\* turns with code.
C15_MetricsInUnitRange ==
    profile # <<>> =>
        LET p == profile[1]
            all == DOMAIN logs
            conversational == {i \in all :
                                 logs[i].eventType \in {"task_start", "turn_message"}}
            spoken == {i \in conversational : logs[i].role \in {"user", "assistant"}}
            withCode == {i \in conversational :
                           logs[i].role = "assistant" /\ logs[i].hasCode}
            edits == {i \in all : logs[i].eventType = "code_edit"}
            determined == {i \in all :
                             /\ logs[i].eventType = "adoption_infer"
                             /\ logs[i].adoptionStatus \in {"adopted", "rejected", "continued"}}
            InUnitRange(x) == x >= 0 /\ x <= Scale
        IN  /\ InUnitRange(p.aiDependencyScore)
            /\ InUnitRange(p.codeEditRatio)
            /\ InUnitRange(p.adoptionRate)
            /\ InUnitRange(p.selfModificationRate)
            /\ InUnitRange(p.debuggingFrequency)
            /\ InUnitRange(p.explorationBreadth)
            /\ spoken = {} => p.aiDependencyScore = 0
            /\ withCode = {} => p.codeEditRatio = 0 /\ p.selfModificationRate = 0
            /\ determined = {} => p.adoptionRate = 0
            /\ conversational = {} =>
                  p.debuggingFrequency = 0 /\ p.explorationBreadth = 0
            /\ (withCode # {} /\ Cardinality(edits) > Cardinality(withCode))
                  => p.codeEditRatio = Scale

\* A profile was generated from a log with one assistant turn with code and
\* two code edits: codeEditRatio is 1, and adoptionRate, with no judged
\* suggestion, is 0.
C15_Witness ==
    /\ profile # <<>>
    /\ Cardinality({i \in DOMAIN logs : logs[i].eventType = "code_edit"}) = 2
    /\ \E i \in DOMAIN logs : logs[i].role = "assistant" /\ logs[i].hasCode
    /\ profile[1].codeEditRatio = Scale
    /\ profile[1].adoptionRate = 0

\* The order in which the claims enumerate the styles.
ClaimedStyleOrder ==
    <<"Dependent", "Exploratory", "Optimizer", "Debugger", "Balanced">>

\* C16: inferLearningStyle selects the style with the greatest score, and
\* among the styles that share the greatest score the earliest in the order
\* Dependent, Exploratory, Optimizer, Debugger, Balanced.
C16_EarliestGreatestStyleSelected ==
    (helper # <<>> /\ helper[1].fn = "inferLearningStyle") =>
        LET scores == helper[1].scores
            greatest == SetMax({scores[ClaimedStyleOrder[i]] :
                                   i \in DOMAIN ClaimedStyleOrder})
            earliest == SetMin({i \in DOMAIN ClaimedStyleOrder :
                                   scores[ClaimedStyleOrder[i]] = greatest})
        IN  helper[1].ret.style = ClaimedStyleOrder[earliest]

\* inferLearningStyle was called with metrics for which Optimizer and
\* Balanced share the greatest score, and selected Optimizer.
C16_Witness ==
    /\ helper # <<>>
    /\ helper[1].fn = "inferLearningStyle"
    /\ helper[1].scores.Optimizer = helper[1].scores.Balanced
    /\ \A i \in DOMAIN ClaimedStyleOrder :
          helper[1].scores[ClaimedStyleOrder[i]] <= helper[1].scores.Optimizer
    /\ helper[1].ret.style = "Optimizer"

\* C17: when the best style score is below 0.3, the style is Balanced and
\* the confidence is the best score itself, not rounded; otherwise the
\* confidence is min(0.6 * best + 0.4 * (best - secondBest), 1) rounded to
\* three decimals.
C17_ConfidenceRule ==
    (helper # <<>> /\ helper[1].fn = "inferLearningStyle") =>
        LET scores == helper[1].scores
            styles == DOMAIN ClaimedStyleOrder
            ScoreAt(i) == scores[ClaimedStyleOrder[i]]
            best == SetMax({ScoreAt(i) : i \in styles})
            bestAt == CHOOSE i \in styles : ScoreAt(i) = best
            secondBest == SetMax({ScoreAt(i) : i \in styles \ {bestAt}})
            raw == (6 * best + 4 * (best - secondBest)) \div 10
            capped == IF raw < Scale THEN raw ELSE Scale
            rounded == IF capped % 1000 >= 500
                       THEN (capped \div 1000 + 1) * 1000
                       ELSE (capped \div 1000) * 1000
        IN  IF best < (3 * Scale) \div 10
            THEN /\ helper[1].ret.style = "Balanced"
                 /\ helper[1].ret.confidence = best
            ELSE helper[1].ret.confidence = rounded

\* inferLearningStyle returned a confidence that is the rounded-up value of
\* 0.6 * best + 0.4 * gap, for a best score above the second best.
C17_Witness ==
    /\ helper # <<>>
    /\ helper[1].fn = "inferLearningStyle"
    /\ LET scores == helper[1].scores
           styles == DOMAIN ClaimedStyleOrder
           ScoreAt(i) == scores[ClaimedStyleOrder[i]]
           best == SetMax({ScoreAt(i) : i \in styles})
           bestAt == CHOOSE i \in styles : ScoreAt(i) = best
           secondBest == SetMax({ScoreAt(i) : i \in styles \ {bestAt}})
           raw == (6 * best + 4 * (best - secondBest)) \div 10
       IN  /\ best > secondBest
           /\ raw < Scale
           /\ raw % 1000 >= 500
           /\ helper[1].ret.confidence > raw

\* The fallback of inferLearningStyle is taken: the best score is below 0.3.
BestScoreBelowThreshold ==
    /\ helper # <<>>
    /\ helper[1].fn = "inferLearningStyle"
    /\ \A i \in DOMAIN ClaimedStyleOrder :
          helper[1].scores[ClaimedStyleOrder[i]] < (3 * Scale) \div 10

\* The positions of the task-start and turn-message events of the log.
ConversationalAt ==
    {i \in DOMAIN logs : logs[i].eventType \in {"task_start", "turn_message"}}

\* C18: dominantCategory is the category with the highest frequency among
\* the conversational events, of several with the highest frequency the one
\* encountered first in the log, and "unknown" when the log has no
\* conversational event.
C18_DominantCategory ==
    profile # <<>> =>
        LET categories == {logs[i].category : i \in ConversationalAt}
            freq(c) == Cardinality({i \in ConversationalAt : logs[i].category = c})
            firstAt(c) == SetMin({i \in ConversationalAt : logs[i].category = c})
            top == {c \in categories : \A d \in categories : freq(d) <= freq(c)}
        IN  IF ConversationalAt = {}
            THEN profile[1].dominantCategory = "unknown"
            ELSE /\ profile[1].dominantCategory \in top
                 /\ \A c \in top : firstAt(profile[1].dominantCategory) <= firstAt(c)

\* A profile was generated from a log in which debugging and algorithm
\* share the highest frequency and debugging comes first: the dominant
\* category is debugging.
C18_Witness ==
    /\ profile # <<>>
    /\ Cardinality({i \in ConversationalAt : logs[i].category = "debugging"}) = 1
    /\ Cardinality({i \in ConversationalAt : logs[i].category = "algorithm"}) = 1
    /\ \E i, j \in ConversationalAt :
          /\ i < j
          /\ logs[i].category = "debugging"
          /\ logs[j].category = "algorithm"
    /\ profile[1].dominantCategory = "debugging"

\* The mean over the tasks of the log of turns[t], as a fixed-point number.
MeanOverTasks(turns) ==
    LET tasks == {logs[i].taskId : i \in DOMAIN logs}
    IN  IF tasks = {} THEN 0
        ELSE (SumOver(turns, tasks) * Scale) \div Cardinality(tasks)

\* C19, as claimed: avgTurnsPerTask is the mean, over the tasks of the log,
\* of the largest turnIndex seen for the task in any of its events, plus 1,
\* and 0 for a log with no task.
C19_MeanOfLargestTurnIndex ==
    profile # <<>> =>
        LET tasks == {logs[i].taskId : i \in DOMAIN logs}
            turns == [t \in tasks |->
                        SetMax({logs[i].turnIndex :
                                   i \in {j \in DOMAIN logs : logs[j].taskId = t}}) + 1]
        IN  profile[1].avgTurnsPerTask = MeanOverTasks(turns)

\* C19, amended: avgTurnsPerTask is the mean, over the tasks of the whole
\* log, of the largest turnIndex among the task's task-start and
\* turn-message events, plus 1, a task with no such event counting for 0;
\* it is 0 for a log with no task.
C19_MeanOfLargestConversationalTurnIndex ==
    profile # <<>> =>
        LET tasks == {logs[i].taskId : i \in DOMAIN logs}
            turns == [t \in tasks |->
                        LET own == {i \in ConversationalAt : logs[i].taskId = t}
                        IN  IF own = {} THEN 0
                            ELSE SetMax({logs[i].turnIndex : i \in own}) + 1]
        IN  profile[1].avgTurnsPerTask = MeanOverTasks(turns)

\* A profile was generated from a log with two tasks, one with a turn of
\* index 1 and one with nothing but an adoption-inferred event: the average
\* is (2 + 0) / 2 = 1.
C19_Witness ==
    /\ profile # <<>>
    /\ \E i, j \in DOMAIN logs :
          /\ logs[i].taskId # logs[j].taskId
          /\ i \in ConversationalAt /\ logs[i].turnIndex = 1
          /\ logs[j].eventType = "adoption_infer"
          /\ \A k \in ConversationalAt : logs[k].taskId = logs[i].taskId
    /\ profile[1].avgTurnsPerTask = Scale

\* C20: adoptionRate is the number of adoption-inferred events with the
\* verdict adopted divided by the number of those with a verdict other
\* than unknown, and 0 when there is none; it is the rate of the log with
\* its events of verdict unknown, or of no verdict, removed.
C20_AdoptionRate ==
    profile # <<>> =>
        LET inferred == {i \in DOMAIN logs : logs[i].eventType = "adoption_infer"}
            adopted == {i \in inferred : logs[i].adoptionStatus = "adopted"}
            determined == {i \in inferred :
                             logs[i].adoptionStatus \in AdoptionStatus \ {"unknown"}}
            Undetermined(l) == /\ l.eventType = "adoption_infer"
                               /\ l.adoptionStatus \in {"unknown", Absent}
            others == SelectSeq(logs, LAMBDA l : ~Undetermined(l))
        IN  /\ profile[1].adoptionRate =
                  IF determined = {} THEN 0
                  ELSE (Cardinality(adopted) * Scale) \div Cardinality(determined)
            /\ profile[1].adoptionRate =
                  calcAdoptionRate(SelectSeq(others, IsAdoptionLog))

\* A profile was generated from a log with an adopted, a rejected and an
\* unknown verdict: the adoption rate is 1/2.
C20_Witness ==
    /\ profile # <<>>
    /\ \E i, j, k \in DOMAIN logs :
          /\ logs[i].eventType = "adoption_infer" /\ logs[i].adoptionStatus = "adopted"
          /\ logs[j].eventType = "adoption_infer" /\ logs[j].adoptionStatus = "rejected"
          /\ logs[k].eventType = "adoption_infer" /\ logs[k].adoptionStatus = "unknown"
    /\ profile[1].adoptionRate = Scale \div 2

\* What the claims compare of two profiles: everything but generatedAt.
SansGeneratedAt(p) == [f \in (DOMAIN p) \ {"generatedAt"} |-> p[f]]

C23_OrderOfRecordsIrrelevant ==
    profile # <<>> =>
        LET p == profile[1]
            q == generate(SortedLog, 0)
        IN  /\ p.totalTasks = q.totalTasks
            /\ p.totalInteractions = q.totalInteractions
            /\ p.avgTurnsPerTask = q.avgTurnsPerTask
            /\ p.aiDependencyScore = q.aiDependencyScore
            /\ p.codeEditRatio = q.codeEditRatio
            /\ p.adoptionRate = q.adoptionRate
            /\ p.selfModificationRate = q.selfModificationRate
            /\ p.debuggingFrequency = q.debuggingFrequency
            /\ p.explorationBreadth = q.explorationBreadth
            /\ p.timeRange.start = SetMin({logs[i].ts : i \in DOMAIN logs})
            /\ p.timeRange.end = SetMax({logs[i].ts : i \in DOMAIN logs})

\* A profile was generated from a log whose first record is the latest and
\* whose last record is neither the earliest nor the latest.
C23_Witness ==
    /\ profile # <<>>
    /\ logs[1].ts = 5
    /\ logs[Len(logs)].ts = 3
    /\ profile[1].timeRange = [start |-> 1, end |-> 5]

\* The synthetic logs of one category: one or two conversational events of
\* that category, with or without a code edit (whose category is "other"
\* and is not a conversational event's).
SyntheticLogs(cat) ==
    LET start == LogEvent(1, "taskA", "task_start", "user", cat, FALSE, 0, Absent)
        turn == LogEvent(2, "taskA", "turn_message", "assistant", cat, TRUE, 1, Absent)
        edit == LogEvent(3, "taskA", "code_edit", "user", "other", TRUE, -1, Absent)
    IN  {<<start>>, <<start, turn>>, <<start, edit>>, <<start, turn, edit>>,
         <<edit, turn>>}

\* C22: the dominantCategory of a profile, fed back as the only category of
\* the conversational events of a synthetic log (which has at least one),
\* gives debuggingFrequency 1.0 if it is debugging and 0.0 otherwise.
C22_DominantCategoryRoundTrip ==
    profile # <<>> =>
        \A lg \in SyntheticLogs(profile[1].dominantCategory) :
            calcDebuggingFrequency(SelectSeq(lg, IsConversation)) =
                IF profile[1].dominantCategory = "debugging" THEN Scale ELSE 0

\* A profile whose dominant category is debugging, from a log that has
\* other categories too.
C22_Witness ==
    /\ profile # <<>>
    /\ profile[1].dominantCategory = "debugging"
    /\ profile[1].debuggingFrequency < Scale
    /\ \A lg \in SyntheticLogs("debugging") :
           generate(lg, 0).debuggingFrequency = Scale

\* C26: the rules in the header of AdoptionTracker, for a pending turn that
\* is not a completion (which is adopted by default).  A code edit or file
\* save counts for adopted only within ADOPTION_TIMEOUT_MS of the
\* registration: one that comes later, and is the first since the
\* registration, leaves the turn to be judged rejected by a user message on
\* a different topic and not to be judged adopted by finalizeIfPending.
\* And a user message on a different topic, with no edit or save since the
\* registration, is judged rejected.
C26_HeaderRules ==
    [][ /\ ( /\ IsCallOf({"onCodeEdit", "onFileSave"})
             /\ call'.hadPending
             /\ call'.timedOut
             /\ MapGet(pendingTurns, call'.taskId).suggestionType # "completion"
             /\ ~MapGet(pendingTurns, call'.taskId).hasCodeEdit
             /\ ~MapGet(pendingTurns, call'.taskId).hasFileSave ) =>
               /\ onUserMessage(pendingTurns', call'.taskId, FALSE).status = "rejected"
               /\ finalizeIfPending(pendingTurns', call'.taskId, now).status # "adopted"
        /\ ( /\ IsCallOf({"onUserMessage"})
             /\ call'.hadPending
             /\ ~call'.isSameTopic
             /\ MapGet(pendingTurns, call'.taskId).suggestionType # "completion"
             /\ ~sinceReg[call'.taskId].edit
             /\ ~sinceReg[call'.taskId].save ) =>
               call'.ret = "rejected"
      ]_vars

\* C27: the edit and save flags of a pending turn are sticky and separate.
\* onCodeEdit sets hasCodeEdit and onFileSave sets hasFileSave, and each
\* leaves every other field of the turn (the other flag, hasCode,
\* suggestionType, turnIndex) as it was; a flag that is set stays set for as
\* long as the turn is pending, which it is until onUserMessage,
\* finalizeIfPending, clear or a new registration for the task.
C27_FlagsStickyAndSeparate ==
    [][ \A t \in TaskIds :
          LET before == EntriesOf(pendingTurns, t)
              after == EntriesOf(pendingTurns', t)
              Registered == IsCallOf({"registerAssistantTurn"}) /\ call'.taskId = t
          IN  /\ (IsCallOf({"onCodeEdit"}) /\ call'.taskId = t) =>
                    after = {[e EXCEPT !.value.hasCodeEdit = TRUE] : e \in before}
              /\ (IsCallOf({"onFileSave"}) /\ call'.taskId = t) =>
                    after = {[e EXCEPT !.value.hasFileSave = TRUE] : e \in before}
              /\ (before # {} /\ ~Registered) =>
                    \/ /\ after = {}
                       /\ \/ IsCallOf({"clear"})
                          \/ /\ IsCallOf({"onUserMessage", "finalizeIfPending"})
                             /\ call'.taskId = t
                    \/ \E e \in before, f \in after :
                          /\ after = {f}
                          /\ e.value.hasCodeEdit => f.value.hasCodeEdit
                          /\ e.value.hasFileSave => f.value.hasFileSave
      ]_vars

\* onFileSave was called for a pending turn whose edit flag was set before,
\* and both flags are set.
C27_Witness ==
    /\ call.op = "onFileSave"
    /\ call.hadPending
    /\ sinceReg[call.taskId].edit
    /\ \E e \in EntriesOf(pendingTurns, call.taskId) :
          /\ e.value.hasCodeEdit
          /\ e.value.hasFileSave
          /\ e.value.hasCode

\* C30: for metrics in [0, 1] the Dependent and Optimizer scores sum to more
\* than 0.6, so the best score is 0.3 at least, the fallback to Balanced is
\* not taken, and StudentProfiler and the script's generateStudentProfile
\* return the same style and the same confidence.
C30_FallbackNeverTaken ==
    (helper # <<>> /\ helper[1].fn = "inferLearningStyle") =>
        LET h == helper[1] IN
        /\ h.scores.Dependent + h.scores.Optimizer > (6 * Scale) \div 10
        /\ bestOf(h.scores).bestScore >= (3 * Scale) \div 10
        /\ h.script = h.ret

\* inferLearningStyle was applied to metrics for which Dependent and
\* Optimizer are the two greatest scores, close to one another, and neither
\* reaches one half; the script agrees on the result.
C30_Witness ==
    /\ helper # <<>>
    /\ helper[1].fn = "inferLearningStyle"
    /\ helper[1].scores.Dependent < Scale \div 2
    /\ helper[1].scores.Optimizer < Scale \div 2
    /\ helper[1].ret.style \in {"Dependent", "Optimizer"}
    /\ helper[1].script = helper[1].ret

\* The indexes getNextTurnIndex has returned for a task, in order.
IndexesOf(h) ==
    LET gets == SelectSeq(h, LAMBDA c : c.op = "getNextTurnIndex")
    IN  [i \in DOMAIN gets |-> gets[i].ret]

\* C24, as claimed: over any sequence of getNextTurnIndex and
\* resetTurnIndex calls, the indexes handed out for a task never decrease.
C24_IndexesNeverDecrease ==
    \A t \in TaskIds :
        LET idx == IndexesOf(handedOut[t])
        IN  \A i, j \in DOMAIN idx : i < j => idx[i] <= idx[j]

\* C24, amended: the first index handed out for a task, and the first after
\* each resetTurnIndex of the task, is 0, and every other one is the one
\* before it plus 1: the indexes increase between two resets and start
\* again at 0 after a reset.
C24_IndexesCountUpFromReset ==
    \A t \in TaskIds :
        LET h == handedOut[t] IN
        \A i \in DOMAIN h :
            h[i].op = "getNextTurnIndex" =>
                h[i].ret = IF i = 1 \/ h[i - 1].op = "resetTurnIndex"
                           THEN 0
                           ELSE h[i - 1].ret + 1

\* A task was handed 0 and 1, was reset, and was handed 0 again.
C24_Witness ==
    \E t \in TaskIds :
        /\ Len(handedOut[t]) = 4
        /\ handedOut[t][3].op = "resetTurnIndex"
        /\ IndexesOf(handedOut[t]) = <<0, 1, 0>>

\* The sum of the per-task turn counts that calcAvgTurnsPerTask divides by
\* the number of tasks.
TurnSum(lg) == calcAvgTurnsPerTask(SelectSeq(lg, IsConversation), 1)

\* The log with event e inserted after its first i events.
InsertAt(lg, i, e) == SubSeq(lg, 1, i) \o <<e>> \o SubSeq(lg, i + 1, Len(lg))

\* C25: code-edit and file-save events do not consume a turn index.  No
\* step of the editor tracker changes the persister's turn counter; an
\* event it logs is a code_edit or a file_save with turnIndex -1; and such
\* an event, inserted anywhere into a log, leaves the sum of the per-task
\* turn counts as it was.
C25_EditsTakeNoTurnIndex ==
    [][ /\ turnIndexMap' = turnIndexMap
        /\ logs' # logs =>
              LET e == logs'[Len(logs')] IN
              /\ logs' = Append(logs, e)
              /\ e.eventType \in {"code_edit", "file_save"}
              /\ e.turnIndex = -1
              /\ \A i \in 0..Len(SortedLog) :
                    TurnSum(InsertAt(SortedLog, i, e)) = TurnSum(SortedLog)
      ]_vars

\* A code_edit and a file_save of taskA were logged, and the turn counter of
\* taskA, which has conversational turns, is where it was.
C25_Witness ==
    /\ \E i \in DOMAIN logs : logs[i].eventType = "code_edit"
                               /\ logs[i].taskId = "taskA"
    /\ \E i \in DOMAIN logs : logs[i].eventType = "file_save"
                               /\ logs[i].taskId = "taskA"
    /\ \A i \in DOMAIN logs : logs[i].turnIndex = -1
    /\ MapGet(turnIndexMap, "taskA") = 2
    /\ TurnSum(SortedLog \o logs) = TurnSum(SortedLog)

\* The files the tracker does not ignore.
TrackedFiles ==
    {d.fsPath : d \in {d \in Documents : d.scheme = "file" /\ ~shouldIgnore(d.fsPath)}}

\* The runs of changes to a file: a change that comes less than DEBOUNCE_MS
\* after the one before it continues its run, any other change starts one.
\* Each run with the sum of its deltas and the time of its last change.
RunsOf(filePath) ==
    LET changes == SelectSeq(events,
                       LAMBDA ev : ev.kind = "change" /\ ev.filePath = filePath)
        runs[i \in 0..Len(changes)] ==
            IF i = 0 THEN <<>>
            ELSE LET sofar == runs[i - 1]
                     n == Len(sofar)
                 IN  IF n > 0 /\ changes[i].at - sofar[n].last < DEBOUNCE_MS
                     THEN [sofar EXCEPT ![n] =
                              [changeDelta |-> @.changeDelta + changes[i].delta,
                               last |-> changes[i].at]]
                     ELSE Append(sofar, [changeDelta |-> changes[i].delta,
                                         last |-> changes[i].at])
    IN  runs[Len(changes)]

\* What the runs of a file that ended DEBOUNCE_MS ago or earlier are to
\* have logged, and what has been logged for the file.
OwedLogs(filePath) ==
    LET ended == SelectSeq(RunsOf(filePath), LAMBDA r : r.last + DEBOUNCE_MS <= now)
    IN  [i \in DOMAIN ended |-> [ts |-> ended[i].last + DEBOUNCE_MS,
                                 changeDelta |-> ended[i].changeDelta]]

CodeEditLogs(filePath) ==
    LET edits == SelectSeq(logs, LAMBDA l : l.eventType = "code_edit"
                                           /\ l.filePath = asRelativePath(filePath))
    IN  [i \in DOMAIN edits |-> [ts |-> edits[i].ts,
                                 changeDelta |-> edits[i].changeDelta]]

\* C28: when no timer is due and no flush is in progress, each run of
\* changes to a file that ended DEBOUNCE_MS ago has produced exactly one
\* code_edit log, DEBOUNCE_MS after its last change, with the sum of the
\* deltas of its changes, and there is no other code_edit log of the file.
C28_OneLogPerRun ==
    (NoTimerDue /\ flights = {}) =>
        \A filePath \in TrackedFiles : CodeEditLogs(filePath) = OwedLogs(filePath)

\* C29: a code_edit log carries a task id, and it is the task that was
\* active at each of the changes the log merges.
C29_LogCarriesTaskOfEdits ==
    [][ (logs' # logs /\ logs'[Len(logs')].eventType = "code_edit") =>
          LET e == logs'[Len(logs')] IN
          /\ e.taskId # Absent
          /\ \E fl \in flights \ flights' :
                \A i \in DOMAIN events :
                    (events[i].kind = "change" /\ events[i].obj = fl.pending.obj)
                        => events[i].taskId = e.taskId
      ]_vars

====
